---- MODULE Spec2Model ----
(***************************************************************************)
(* Model of the Google Maps lead pipeline                                  *)
(* (scraper-service/execution/gmaps_lead_pipeline.py and its two           *)
(* collaborators scrape_google_maps.py and extract_website_contacts.py).   *)
(*                                                                         *)
(* Python strings are sequences of one-character strings, so that          *)
(* upper-casing, substring tests, joins and splits are computed and not    *)
(* assumed.  A Python dict is a function whose DOMAIN is the set of keys   *)
(* present.  An optional value is a sequence of length 0 (None) or 1.      *)
(* Raw leads and futures are heap objects: lists hold their identities.    *)
(***************************************************************************)
EXTENDS Integers, Sequences, FiniteSets, TLC

\* ------------------------------------------------------------------ bounds

\* Scheduling bound: how many times in one run a future may be yielded by
\* as_completed while a future submitted before it is still pending.
MaxOvertakes == 1

\* The size of the thread pool explored (the code's pool has 8 workers).
MaxWorkers == 2

\* How many calls of ProgressReporter.update are followed on one reporter.
MaxCalls == 2

\* ------------------------------------------------------------ Python values

None == <<>>
Some(v) == <<v>>

\* dict.get(k, default)
Get(d, k, default) == IF k \in DOMAIN d THEN d[k] ELSE default

LowerLetters ==
    <<"a","b","c","d","e","f","g","h","i","j","k","l","m",
      "n","o","p","q","r","s","t","u","v","w","x","y","z">>

UpperLetters ==
    <<"A","B","C","D","E","F","G","H","I","J","K","L","M",
      "N","O","P","Q","R","S","T","U","V","W","X","Y","Z">>

UpperChar(c) ==
    IF \E i \in DOMAIN LowerLetters : LowerLetters[i] = c
    THEN UpperLetters[CHOOSE i \in DOMAIN LowerLetters : LowerLetters[i] = c]
    ELSE c

LowerChar(c) ==
    IF \E i \in DOMAIN UpperLetters : UpperLetters[i] = c
    THEN LowerLetters[CHOOSE i \in DOMAIN UpperLetters : UpperLetters[i] = c]
    ELSE c

\* str.upper(), str.lower()
Upper(s) == [i \in DOMAIN s |-> UpperChar(s[i])]
Lower(s) == [i \in DOMAIN s |-> LowerChar(s[i])]

\* `sub in s` for strings
Contains(s, sub) ==
    \E i \in 0..(Len(s) - Len(sub)) : SubSeq(s, i + 1, i + Len(sub)) = sub

\* str.strip() (only the space character occurs in the inputs)
RECURSIVE LStrip(_)
LStrip(s) == IF s # <<>> /\ Head(s) = " " THEN LStrip(Tail(s)) ELSE s

RECURSIVE RStrip(_)
RStrip(s) ==
    IF s # <<>> /\ s[Len(s)] = " " THEN RStrip(SubSeq(s, 1, Len(s) - 1)) ELSE s

Strip(s) == LStrip(RStrip(s))

\* s.split(sep) for a one-character separator: the list of fields.
RECURSIVE Split(_, _)
Split(s, sep) ==
    IF \E i \in DOMAIN s : s[i] = sep
    THEN LET i == CHOOSE j \in DOMAIN s : s[j] = sep /\ \A k \in 1..(j - 1) : s[k] # sep
         IN  <<SubSeq(s, 1, i - 1)>> \o Split(SubSeq(s, i + 1, Len(s)), sep)
    ELSE <<s>>

\* sep.join(list)
RECURSIVE Join(_, _)
Join(list, sep) ==
    IF list = <<>> THEN <<>>
    ELSE IF Len(list) = 1 THEN list[1]
    ELSE list[1] \o sep \o Join(Tail(list), sep)

\* ------------------------------------------------------------ lead key

\* hashlib.md5 of the raw text: the digest is taken to be collision-free, so
\* the key of a raw text is the raw text itself.
Md5Hex(raw) == raw

get_lead_id(name, address) == Md5Hex(name \o <<"|">> \o address)

\* ------------------------------------------------------------ JSON values

\* A value of the extraction payload (json.loads) or of an enriched field.
JNull == [t |-> "null", v |-> <<>>]
JBool(b) == [t |-> "bool", v |-> b]
JStr(s) == [t |-> "str", v |-> s]
JList(l) == [t |-> "list", v |-> l]
JObj(d) == [t |-> "dict", v |-> d]

EmptyDict == <<>>

\* bool(x) in Python
Truthy(j) ==
    CASE j.t = "null" -> FALSE
      [] j.t = "bool" -> j.v
      [] j.t = "str" -> j.v # <<>>
      [] j.t = "list" -> j.v # <<>>
      [] j.t = "dict" -> DOMAIN j.v # {}

\* `x or default`
OrElse(j, default) == IF Truthy(j) THEN j ELSE default

\* ------------------------------------------------------------ name inference

\* The import list of gmaps_lead_pipeline.py: os, argparse, sys, hashlib,
\* json, gspread, csv, queue, httpx, datetime, concurrent.futures, dotenv.
\* The module `re` is not among them, so the name `re` is unbound.
ReModuleImported == FALSE

GENERIC_EMAIL_PREFIXES ==
    { <<"i","n","f","o">>,
      <<"c","o","n","t","a","c","t">>,
      <<"h","e","l","l","o">>,
      <<"a","d","m","i","n">>,
      <<"s","a","l","e","s">>,
      <<"s","u","p","p","o","r","t">>,
      <<"h","e","l","p">>,
      <<"o","f","f","i","c","e">>,
      <<"t","e","a","m">>,
      <<"b","i","l","l","i","n","g">>,
      <<"m","a","r","k","e","t","i","n","g">>,
      <<"s","e","r","v","i","c","e">>,
      <<"g","e","n","e","r","a","l">>,
      <<"e","n","q","u","i","r","i","e","s">>,
      <<"e","n","q","u","i","r","y">>,
      <<"m","a","i","l">>,
      <<"e","m","a","i","l">>,
      <<"w","e","b">>,
      <<"n","o","r","e","p","l","y">>,
      <<"n","o","-","r","e","p","l","y">> }

NameDelimiters == {".", "_", "-"}

\* re.split(r'[._-]', s)
RECURSIVE ReSplit(_)
ReSplit(s) ==
    IF \E i \in DOMAIN s : s[i] \in NameDelimiters
    THEN LET i == CHOOSE j \in DOMAIN s :
                      /\ s[j] \in NameDelimiters
                      /\ \A k \in 1..(j - 1) : s[k] \notin NameDelimiters
         IN  <<SubSeq(s, 1, i - 1)>> \o ReSplit(SubSeq(s, i + 1, Len(s)))
    ELSE <<s>>

IsLetter(c) ==
    \E i \in DOMAIN LowerLetters : LowerLetters[i] = c \/ UpperLetters[i] = c

\* str.isalpha()
IsAlpha(s) == s # <<>> /\ \A i \in DOMAIN s : IsLetter(s[i])

\* str.title() of a purely alphabetic word
Title(s) == [i \in DOMAIN s |-> IF i = 1 THEN UpperChar(s[i]) ELSE LowerChar(s[i])]

ValidPart(p) == IsAlpha(p) /\ Len(p) > 1

TitleAll(parts) == [i \in DOMAIN parts |-> Title(parts[i])]

\* infer_name_from_email: the optional name.  `email` is a JSON value; a
\* value that is not a string raises inside the try (no .split) and gives
\* None.  With `re` unbound, re.split raises NameError, which the same
\* `except Exception` turns into None.
infer_name_from_email(email) ==
    IF ~Truthy(email) THEN JNull
    ELSE IF email.t # "str" THEN JNull
    ELSE LET local_part == Lower(Split(email.v, "@")[1])
         IN  IF local_part \in GENERIC_EMAIL_PREFIXES THEN JNull
             ELSE IF ~ReModuleImported THEN JNull
             ELSE LET valid_parts == SelectSeq(ReSplit(local_part), ValidPart)
                  IN  IF valid_parts = <<>> THEN JNull
                      ELSE JStr(Join(TitleAll(valid_parts), <<" ">>))

\* ------------------------------------------------------------ extraction

\* One call of extract_contacts as process_lead sees it: it raises, or it
\* returns a payload (a dict of JSON values).
Raised == [raises |-> TRUE, data |-> EmptyDict]
Returned(d) == [raises |-> FALSE, data |-> d]

\* extract_contacts(url, business_name, anthropic_key): without a key (and
\* with no ANTHROPIC_API_KEY in the environment) it raises ValueError before
\* any fetch; otherwise the outcome is what the site and the API produce.
extract_contacts(key_present, behaviour) ==
    IF ~key_present THEN Raised ELSE behaviour

\* ------------------------------------------------------------ process_lead

\* RawFields with review_count read from the wrong raw field.
RawFieldsMiswired(lead, query) ==
    [lead_id |-> get_lead_id(lead.name, lead.address),
     business_name |-> lead.name,
     category |-> lead.category,
     rating |-> lead.rating,
     review_count |-> lead.rating,
     address |-> lead.address,
     city |-> lead.city,
     state |-> lead.state,
     phone |-> lead.phone,
     website |-> lead.website,
     search_query |-> query]

RawFields(lead, query) ==
    [lead_id |-> get_lead_id(lead.name, lead.address),
     business_name |-> lead.name,
     category |-> lead.category,
     rating |-> lead.rating,
     review_count |-> lead.reviews,
     address |-> lead.address,
     city |-> lead.city,
     state |-> lead.state,
     phone |-> lead.phone,
     website |-> lead.website,
     search_query |-> query]

EnrichmentFields ==
    {"emails", "facebook", "linkedin", "instagram", "facebook_pixel",
     "google_pixel", "executive_summary", "owner_name", "owner_title"}

\* ", ".join(data.get('emails') or []) raises TypeError unless the value is a
\* list of strings (or a string, which joins its characters).
EmailsJoinable(emails) ==
    \/ emails.t = "list" /\ \A i \in DOMAIN emails.v : emails.v[i].t = "str"
    \/ emails.t = "str"

JoinEmails(emails) ==
    IF emails.t = "list"
    THEN Join([i \in DOMAIN emails.v |-> emails.v[i].v], <<",", " ">>)
    ELSE Join([i \in DOMAIN emails.v |-> <<emails.v[i]>>], <<",", " ">>)

\* The owner-name fallback of process_lead (lines 195-204): taken only when
\* the extracted owner name is falsy; the owner's email is tried when it is
\* truthy, and the first entry of the flattened email list only otherwise.
OwnerNameFallback(owner_name, owner, emails_str) ==
    IF Truthy(owner_name) THEN owner_name
    ELSE LET owner_email == Get(owner, "email", JNull)
         IN  IF Truthy(owner_email) THEN infer_name_from_email(owner_email)
             ELSE IF emails_str # <<>>
                  THEN infer_name_from_email(JStr(Strip(Split(emails_str, ",")[1])))
                  ELSE owner_name

\* Lines 156-207 of process_lead: the enriched dict.  `result` is the outcome
\* of the extract_contacts call, made only for a lead with a website.  An
\* exception anywhere in the try block leaves the fields that were assigned
\* before it.
Enrich(lead, query, result) ==
    LET enriched == RawFields(lead, query)
        data == result.data
        emails == OrElse(Get(data, "emails", JNull), JList(<<>>))
        e1 == enriched @@ [emails |-> JoinEmails(emails)]
        social == OrElse(Get(data, "social_media", JNull), JObj(EmptyDict))
        e2 == e1 @@ [facebook |-> Get(social.v, "facebook", JNull),
                     linkedin |-> Get(social.v, "linkedin", JNull),
                     instagram |-> Get(social.v, "instagram", JNull),
                     facebook_pixel |-> Get(data, "facebook_pixel", JBool(FALSE)),
                     google_pixel |-> Get(data, "google_pixel", JBool(FALSE)),
                     executive_summary |-> Get(data, "executive_summary", JStr(<<>>))]
        owner == OrElse(Get(data, "owner_info", JNull), JObj(EmptyDict))
        owner_name == Get(owner.v, "name", JNull)
        e3 == e2 @@ [owner_name |-> OwnerNameFallback(owner_name, owner.v, e1.emails),
                     owner_title |-> Get(owner.v, "title", JNull)]
    IN  IF lead.website = <<>> THEN enriched
        ELSE IF result.raises THEN enriched
        ELSE IF ~EmailsJoinable(emails) THEN enriched
        ELSE IF social.t # "dict" THEN e1
        ELSE IF owner.t # "dict" THEN e2
        ELSE e3

\* process_lead without the try block: the extraction error reaches the caller.
process_lead_uncaught(lead, query, result) ==
    [raised |-> lead.website # <<>> /\ result.raises,
     value |-> Enrich(lead, query, result)]

\* process_lead(lead, query, anthropic_key) as its caller sees it: whether it
\* raised, and the dict it returned.  Everything that can raise is inside the
\* try block, whose `except Exception` only logs.
process_lead(lead, query, result) ==
    [raised |-> FALSE, value |-> Enrich(lead, query, result)]

\* ------------------------------------------------------------ the provider's world

\* The raw-lead dicts the search provider can hand out, by object identity.
\* Two listings may carry the same name and address (7 repeats 1).
LeadIds == 1..15

FillerName(id) ==
    <<"G","H","I","J","K","L","M","N">>[id - 7]

RawLead(id) ==
    LET base == [category |-> <<"p">>, rating |-> <<"4">>, reviews |-> <<"9">>,
                 city |-> <<"A">>, phone |-> <<"5">>]
    IN  CASE id = 1 -> base @@ [name |-> <<"A">>, address |-> <<"1"," ","T","X">>,
                                state |-> <<"T","X">>, website |-> <<"a",".","c","o">>]
          [] id = 2 -> base @@ [name |-> <<"B">>, address |-> <<"2"," ","T","X">>,
                                state |-> <<>>, website |-> <<>>]
          [] id = 3 -> base @@ [name |-> <<"C">>, address |-> <<"3",","," ","T","X">>,
                                state |-> <<"T","e","x","a","s">>,
                                website |-> <<"c",".","c","o">>]
          [] id = 4 -> base @@ [name |-> <<"D">>, address |-> <<"4"," ","C","A">>,
                                state |-> <<"C","A">>, website |-> <<"d",".","c","o">>]
          [] id = 5 -> base @@ [name |-> <<"E">>, address |-> <<"5">>,
                                state |-> <<"t","x">>, website |-> <<>>]
          [] id = 6 -> base @@ [name |-> <<"F">>, address |-> <<"6"," ","N","Y">>,
                                state |-> <<"N","e","w"," ","Y","o","r","k">>,
                                website |-> <<>>]
          [] id = 7 -> base @@ [name |-> <<"A">>, address |-> <<"1"," ","T","X">>,
                                state |-> <<"T","X">>, website |-> <<>>]
          [] OTHER  -> base @@ [name |-> <<FillerName(id)>>, address |-> <<"8">>,
                                state |-> <<"T","X">>, website |-> <<>>]

KeyOf(id) == get_lead_id(RawLead(id).name, RawLead(id).address)

\* Locations a run may be given.
LocTX == <<"A",","," ","t","x">>
LocPlain == <<"A">>
Locations == {LocTX, LocPlain}

BigList == <<8, 9, 10, 11, 12, 13, 14, 2, 5, 6, 15, 4>>

\* What the provider may answer to the first query ("<niche> in <location>")
\* and to the broader one ("<niche> near <location>").
FirstResults(location) ==
    IF location = LocTX
    THEN {<<>>, <<1, 2, 4>>, <<1, 7>>, BigList}
    ELSE {<<>>, <<1, 2, 4>>, <<4, 6>>}

SecondResults(location) ==
    IF location = LocTX
    THEN {<<3, 1, 5>>, <<>>}
    ELSE {<<3, 1, 5>>, <<6, 6>>}

\* What one extract_contacts call may produce, given the key is present.
PayloadEmpty == EmptyDict

PayloadFull ==
    [executive_summary |-> JStr(<<"s">>),
     emails |-> JList(<<JStr(<<"j","o",".","e","d","@","x">>)>>),
     social_media |-> JObj([facebook |-> JStr(<<"f">>), linkedin |-> JNull]),
     owner_info |-> JObj([name |-> JStr(<<"A","l">>), title |-> JStr(<<"c","e","o">>),
                          email |-> JNull]),
     facebook_pixel |-> JBool(TRUE),
     google_pixel |-> JBool(FALSE)]

PipelineBehaviours == {Raised, Returned(PayloadEmpty), Returned(PayloadFull)}

\* Further payloads, used where process_lead is exercised on its own.
\* No JSON object in the reply: only the two pixel flags.
PayloadPixels == [facebook_pixel |-> JBool(TRUE), google_pixel |-> JBool(TRUE)]

EmailJoEd == JStr(<<"j","o",".","e","d","@","x">>)
EmailInfo == JStr(<<"i","n","f","o","@","x">>)
EmailBob == JStr(<<"b","o","b","_","l","i","@","x">>)

\* Emails, no owner information at all.
PayloadEmailsOnly ==
    [emails |-> JList(<<EmailJoEd, EmailInfo>>), owner_info |-> JNull,
     facebook_pixel |-> JBool(FALSE), google_pixel |-> JBool(FALSE)]

\* No owner name, but an owner email.
PayloadOwnerEmail ==
    [emails |-> JList(<<EmailJoEd>>),
     owner_info |-> JObj([name |-> JNull, title |-> JNull, email |-> EmailBob]),
     facebook_pixel |-> JBool(FALSE), google_pixel |-> JBool(FALSE)]

\* No owner name, and an owner email with a generic prefix.
PayloadGenericOwner ==
    [emails |-> JList(<<EmailJoEd>>),
     owner_info |-> JObj([name |-> JStr(<<>>), email |-> EmailInfo]),
     facebook_pixel |-> JBool(FALSE), google_pixel |-> JBool(FALSE)]

\* Payloads that do not have the expected shape.
PayloadBadEmails ==
    [emails |-> JList(<<JNull>>), executive_summary |-> JStr(<<"s">>)]

PayloadBadSocial ==
    [emails |-> JList(<<EmailJoEd>>), social_media |-> JStr(<<"n">>),
     facebook_pixel |-> JBool(TRUE)]

PayloadBadOwner ==
    [emails |-> JList(<<EmailJoEd>>), owner_info |-> JStr(<<"A","l">>),
     google_pixel |-> JBool(TRUE)]

WorkerBehaviours ==
    PipelineBehaviours \cup
    {Returned(PayloadPixels), Returned(PayloadEmailsOnly), Returned(PayloadOwnerEmail),
     Returned(PayloadGenericOwner), Returned(PayloadBadEmails),
     Returned(PayloadBadSocial), Returned(PayloadBadOwner)}

\* ------------------------------------------------------------ state

VARIABLES
    cfg,              \* the arguments of run_gmaps_pipeline
    pc,               \* where the run is
    raw_leads,        \* list of raw-lead identities
    progress_log,     \* the calls of ProgressReporter.update, in order
    use_sheet,        \* spreadsheet mode selected
    worksheet,        \* TRUE when setup_sheet returned a worksheet
    existing_ids,     \* the known-key set
    sheet_rows,       \* lead_id column of the worksheet
    csv_rows,         \* lead_id column of the rows written by save_to_csv
    json_rows,        \* lead_id of the records written by save_to_json
    unique_raw_leads, \* the leads that passed both filters
    futures,          \* the futures, in submission order
    enriched_leads,   \* list of future indices, in completion order
    batch_buffer,     \* list of future indices
    flushes,          \* the calls of save_batch, in order
    overtakes,        \* out-of-order completions so far
    returned          \* the value returned by run_gmaps_pipeline

vars == <<cfg, pc, raw_leads, progress_log, use_sheet, worksheet, existing_ids,
          sheet_rows, csv_rows, json_rows, unique_raw_leads, futures,
          enriched_leads, batch_buffer, flushes, overtakes, returned>>

BATCH_SIZE == 10

Niche == <<"p">>

Limits == {3, 6, 12}

AllConfigs ==
    [location : Locations, limit : Limits, increase_radius : BOOLEAN,
     sheet_url : BOOLEAN, force_csv : BOOLEAN, force_json : BOOLEAN,
     apify_token : BOOLEAN, anthropic_key : BOOLEAN]

\* The runs explored: every combination of the arguments; the largest limit
\* with both credentials present and without radius expansion.
Configs ==
    {c \in AllConfigs :
        c.limit = 12 => c.apify_token /\ c.anthropic_key /\ ~c.increase_radius}

query_1 == Niche \o <<" ","i","n"," ">> \o cfg.location

Init ==
    /\ cfg \in Configs
    /\ pc = "start"
    /\ raw_leads = <<>>
    /\ progress_log = <<>>
    /\ use_sheet = FALSE
    /\ worksheet = FALSE
    /\ existing_ids = {}
    /\ sheet_rows = <<>>
    /\ csv_rows = <<>>
    /\ json_rows = <<>>
    /\ unique_raw_leads = <<>>
    /\ futures = <<>>
    /\ enriched_leads = <<>>
    /\ batch_buffer = <<>>
    /\ flushes = <<>>
    /\ overtakes = 0
    /\ returned = <<>>

\* ------------------------------------------------------------ progress

\* ProgressReporter.update(stage, progress, message, leads_found): one event.
Event(stage, progress, leads_found) ==
    [stage |-> stage, progress |-> progress, leads_found |-> leads_found]

update(log, stage, progress, leads_found) ==
    Append(log, Event(stage, progress, leads_found))

\* ------------------------------------------------------------ scraping stage

\* scrape_google_maps raises ValueError when no token is given (and none is
\* in the environment), or on a transport failure of the provider.
SearchFails ==
    /\ pc = "start"
    /\ progress_log' = update(progress_log, "scraping", 0, None)
    /\ pc' = "raised"
    /\ UNCHANGED <<cfg, raw_leads, use_sheet, worksheet, existing_ids, sheet_rows,
                   csv_rows, json_rows, unique_raw_leads, futures, enriched_leads,
                   batch_buffer, flushes, overtakes, returned>>

Search ==
    /\ pc = "start"
    /\ cfg.apify_token
    /\ \E r \in FirstResults(cfg.location) :
          /\ raw_leads' = r
          /\ progress_log' =
                update(update(progress_log, "scraping", 0, None),
                       "scraping", 50, Some(Len(r)))
    /\ pc' = "searched"
    /\ UNCHANGED <<cfg, use_sheet, worksheet, existing_ids, sheet_rows,
                   csv_rows, json_rows, unique_raw_leads, futures, enriched_leads,
                   batch_buffer, flushes, overtakes, returned>>

NeedsExpansion == cfg.increase_radius /\ Len(raw_leads) < cfg.limit

KeysOfList(list) == {KeyOf(list[i]) : i \in DOMAIN list}

\* The merge loop of lines 301-311: a lead of the second result is appended
\* when its key is neither among the first result's keys nor among the keys
\* appended before it.
\* The merge without the seen-key test: every lead of the second result kept.
MergeLeadsKeepingAll(merged, seen_ids, raw_leads_2) == merged \o raw_leads_2

RECURSIVE MergeLeads(_, _, _)
MergeLeads(merged, seen_ids, raw_leads_2) ==
    IF raw_leads_2 = <<>> THEN merged
    ELSE LET l == Head(raw_leads_2)
             lid == KeyOf(l)
         IN  IF lid \notin seen_ids
             THEN MergeLeads(Append(merged, l), seen_ids \cup {lid}, Tail(raw_leads_2))
             ELSE MergeLeads(merged, seen_ids, Tail(raw_leads_2))

ExpandFails ==
    /\ pc = "searched"
    /\ NeedsExpansion
    /\ progress_log' = update(progress_log, "scraping", 60, None)
    /\ pc' = "raised"
    /\ UNCHANGED <<cfg, raw_leads, use_sheet, worksheet, existing_ids, sheet_rows,
                   csv_rows, json_rows, unique_raw_leads, futures, enriched_leads,
                   batch_buffer, flushes, overtakes, returned>>

Expand ==
    /\ pc = "searched"
    /\ NeedsExpansion
    /\ \E r2 \in SecondResults(cfg.location) :
          LET merged == MergeLeads(raw_leads, KeysOfList(raw_leads), r2)
          IN  /\ raw_leads' = merged
              /\ progress_log' =
                    update(update(progress_log, "scraping", 60, None),
                           "scraping", 90, Some(Len(merged)))
    /\ pc' = "expanded"
    /\ UNCHANGED <<cfg, use_sheet, worksheet, existing_ids, sheet_rows,
                   csv_rows, json_rows, unique_raw_leads, futures, enriched_leads,
                   batch_buffer, flushes, overtakes, returned>>

\* The slice left out.
TruncateNothing(list, limit) == list

\* raw_leads[:limit]
Truncate(list, limit) == SubSeq(list, 1, IF Len(list) < limit THEN Len(list) ELSE limit)

FinishScraping ==
    /\ \/ pc = "searched" /\ ~NeedsExpansion
       \/ pc = "expanded"
    /\ progress_log' = update(progress_log, "scraping", 100, Some(Len(raw_leads)))
    /\ raw_leads' = Truncate(raw_leads, cfg.limit)
    /\ pc' = "scraped"
    /\ UNCHANGED <<cfg, use_sheet, worksheet, existing_ids, sheet_rows,
                   csv_rows, json_rows, unique_raw_leads, futures, enriched_leads,
                   batch_buffer, flushes, overtakes, returned>>

\* ------------------------------------------------------------ sink selection

\* What the worksheet may hold before the run (its lead_id column).
SheetContents == {<<>>, <<KeyOf(2), KeyOf(3)>>, <<KeyOf(2), KeyOf(4)>>}

SeqRange(s) == {s[i] : i \in DOMAIN s}

\* Lines 321-339: the output mode, the worksheet and the known-key set.
\* setup_sheet returns None without credentials or on any API error;
\* get_all_records may raise, which leaves the known-key set empty.
SetupSink ==
    /\ pc = "scraped"
    /\ LET want_sheet == cfg.sheet_url /\ ~cfg.force_csv /\ ~cfg.force_json
       IN  IF want_sheet
           THEN \E opened \in BOOLEAN, loaded \in BOOLEAN, rows \in SheetContents :
                   /\ ~opened => ~loaded /\ rows = <<>>
                   /\ worksheet' = opened
                   /\ use_sheet' = opened
                   /\ sheet_rows' = rows
                   /\ existing_ids' = IF loaded THEN SeqRange(rows) ELSE {}
           ELSE /\ worksheet' = FALSE
                /\ use_sheet' = FALSE
                /\ sheet_rows' = <<>>
                /\ existing_ids' = {}
    /\ pc' = "sink_ready"
    /\ UNCHANGED <<cfg, raw_leads, progress_log, csv_rows, json_rows,
                   unique_raw_leads, futures, enriched_leads, batch_buffer,
                   flushes, overtakes, returned>>

\* ------------------------------------------------------------ filtering

\* Lines 346-353: the optional two-letter state code of the location.
target_state(location) ==
    IF Contains(location, <<",">>)
    THEN LET parts == Split(location, ",")
             potential_state == Upper(Strip(parts[Len(parts)]))
         IN  IF Len(potential_state) = 2 THEN Some(potential_state) ELSE None
    ELSE None

NewYork == <<"N","e","w"," ","Y","o","r","k">>

\* Lines 358-367: TRUE when the location check skips the lead.
WrongLocation(lead, target) ==
    /\ target # None
    /\ lead.state # <<>>
    /\ lead.state # target[1]
    /\ lead.state # NewYork
    /\ ~Contains(Upper(lead.state), target[1])
    /\ ~Contains(Upper(lead.address), target[1])

\* FilterLeads without the known-key test.
FilterLeadsLocationOnly(leads, target, known) ==
    LET Keep(id) == ~WrongLocation(RawLead(id), target)
    IN  SelectSeq(leads, Keep)

\* FilterLeads without the location test.
FilterLeadsKnownOnly(leads, target, known) ==
    LET Keep(id) == KeyOf(id) \notin known
    IN  SelectSeq(leads, Keep)

\* The two filters as two passes, the known-key test first.
FilterKnownFirst(leads, target, known) ==
    LET Unknown(id) == KeyOf(id) \notin known
        RightPlace(id) == ~WrongLocation(RawLead(id), target)
    IN  SelectSeq(SelectSeq(leads, Unknown), RightPlace)

\* Lines 356-371: the leads kept for enrichment, in order.
FilterLeads(leads, target, known) ==
    LET Keep(id) == /\ ~WrongLocation(RawLead(id), target)
                    /\ KeyOf(id) \notin known
    IN  SelectSeq(leads, Keep)

\* executor.submit(process_lead, lead, ...): a future that is not done.  The
\* fields call and payload record what its extract_contacts call did, seq the
\* future's place in the order of completion.
NewFuture(id) ==
    [lead |-> id, done |-> FALSE, seq |-> 0, call |-> "pending", raised |-> FALSE,
     payload |-> EmptyDict, result |-> EmptyDict]

\* Lines 341-379 and 423-425: filter, report, submit every kept lead.
FilterAndSubmit ==
    /\ pc = "sink_ready"
    /\ LET kept == FilterLeads(raw_leads, target_state(cfg.location), existing_ids)
       IN  /\ unique_raw_leads' = kept
           /\ futures' = [i \in DOMAIN kept |-> NewFuture(kept[i])]
    /\ progress_log' = update(progress_log, "enriching", 0, None)
    /\ pc' = "enriching"
    /\ UNCHANGED <<cfg, raw_leads, use_sheet, worksheet, existing_ids, sheet_rows,
                   csv_rows, json_rows, enriched_leads, batch_buffer, flushes,
                   overtakes, returned>>

\* ------------------------------------------------------------ save_batch

\* The lead_id of each enriched lead of a batch, in batch order.
BatchKeys(batch, futs) == [k \in DOMAIN batch |-> futs[batch[k]].result.lead_id]

\* Lines 399-404: the keys of the rows to append, every key not yet known,
\* each added to the known-key set as it is taken.
RECURSIVE NewRows(_, _)
NewRows(keys, known) ==
    IF keys = <<>> THEN <<>>
    ELSE IF Head(keys) \notin known
         THEN <<Head(keys)>> \o NewRows(Tail(keys), known \cup {Head(keys)})
         ELSE NewRows(Tail(keys), known)

\* PrimarySink without the JSON override.
PrimarySinkIgnoringJson ==
    IF use_sheet /\ worksheet THEN "sheet"
    ELSE "csv"

\* The sink save_batch writes to first (lines 385-417).
PrimarySink == 
    IF cfg.force_json THEN "json"
    ELSE IF use_sheet /\ worksheet THEN "sheet"
    ELSE "csv"

\* The sink save_batch turns to when the primary write failed: only the
\* spreadsheet branch has an except clause, and force_json is FALSE in it.
FallbackSink(primary) ==
    IF primary = "sheet" THEN (IF cfg.force_json THEN "json" ELSE "csv")
    ELSE "none"

\* save_batch retrying the fallback write once more when it failed.
save_batch_retrying(batch, futs, ok1, ok2) ==
    LET keys == BatchKeys(batch, futs)
        primary == PrimarySink
        new_rows == NewRows(keys, existing_ids)
        attempted == primary # "sheet" \/ new_rows # <<>>
        failed == attempted /\ ~ok1
        fallback == IF failed THEN FallbackSink(primary) ELSE "none"
    IN  /\ json_rows' = IF primary = "json" /\ ok1 THEN json_rows \o keys ELSE json_rows
        /\ csv_rows' = IF (primary = "csv" /\ ok1) \/ (fallback = "csv" /\ ok2)
                       THEN csv_rows \o keys ELSE csv_rows
        /\ sheet_rows' = IF primary = "sheet" /\ attempted /\ ok1
                         THEN sheet_rows \o new_rows ELSE sheet_rows
        /\ existing_ids' = IF primary = "sheet"
                           THEN existing_ids \cup SeqRange(keys) ELSE existing_ids
        /\ flushes' = Append(flushes,
                             [batch |-> batch,
                              novel |-> IF primary = "sheet" THEN new_rows ELSE <<>>,
                              writes |-> (IF attempted
                                          THEN <<[sink |-> primary, ok |-> ok1]>>
                                          ELSE <<>>)
                                         \o (IF fallback # "none"
                                             THEN <<[sink |-> fallback, ok |-> ok2]>>
                                             ELSE <<>>)
                                         \o (IF fallback # "none" /\ ~ok2
                                             THEN <<[sink |-> fallback, ok |-> ok2]>>
                                             ELSE <<>>)])

\* save_batch(batch_leads) with the outcome of the primary write (ok1) and of
\* the fallback write (ok2).  The call is recorded with the keys it took for
\* new (the spreadsheet branch's re-check) and the writes it made.  save_to_json and save_to_csv catch their own
\* errors and return None; worksheet.append_rows raises.
save_batch(batch, futs, ok1, ok2) ==
    LET keys == BatchKeys(batch, futs)
        primary == PrimarySink
        new_rows == NewRows(keys, existing_ids)
        attempted == primary # "sheet" \/ new_rows # <<>>
        failed == attempted /\ ~ok1
        fallback == IF failed THEN FallbackSink(primary) ELSE "none"
        to_json == \/ primary = "json" /\ ok1
                   \/ fallback = "json" /\ ok2
        to_csv == \/ primary = "csv" /\ ok1
                  \/ fallback = "csv" /\ ok2
    IN  /\ json_rows' = IF to_json THEN json_rows \o keys ELSE json_rows
        /\ csv_rows' = IF to_csv THEN csv_rows \o keys ELSE csv_rows
        /\ sheet_rows' = IF primary = "sheet" /\ attempted /\ ok1
                         THEN sheet_rows \o new_rows ELSE sheet_rows
        /\ existing_ids' = IF primary = "sheet"
                           THEN existing_ids \cup SeqRange(keys) ELSE existing_ids
        /\ flushes' = Append(flushes,
                             [batch |-> batch,
                              novel |-> IF primary = "sheet" THEN new_rows ELSE <<>>,
                              writes |-> (IF attempted
                                          THEN <<[sink |-> primary, ok |-> ok1]>>
                                          ELSE <<>>)
                                         \o (IF fallback # "none"
                                             THEN <<[sink |-> fallback, ok |-> ok2]>>
                                             ELSE <<>>)])

\* The outcomes of the writes that one save_batch call can meet.
WriteOutcomes(batch, futs) ==
    LET sheet_idle == PrimarySink = "sheet"
                      /\ NewRows(BatchKeys(batch, futs), existing_ids) = <<>>
    IN  {o \in BOOLEAN \X BOOLEAN :
           /\ sheet_idle => o[1]
           /\ (o[1] \/ PrimarySink # "sheet") => o[2]}

NoFlush == UNCHANGED <<json_rows, csv_rows, sheet_rows, existing_ids, flushes>>

\* ------------------------------------------------------------ enriching stage

\* Pct reporting what remains instead of what is done.
PctRemaining(enriched_count, total_to_enrich) ==
    IF total_to_enrich > 0
    THEN 100 - (enriched_count * 100) \div total_to_enrich
    ELSE 100

\* The (count, total) pairs, for totals up to 250, at which the double
\* (count / total) * 100 lies just below the exact percentage (0.58 * 100 is
\* 57.99999999999999, 0.29 * 100 is 28.999999999999996, 0.57 * 100 is
\* 56.99999999999999), so that int() gives one less than the integer quotient.
FloatShortfall ==
    { <<29, 50>>, <<29, 100>>, <<57, 100>>, <<58, 100>>, <<87, 150>>,
      <<58, 200>>, <<114, 200>>, <<116, 200>>, <<145, 250>> }

\* int((enriched_count / total_to_enrich) * 100): the float quotient times
\* 100, truncated; the integer quotient of count * 100 by the total except at
\* the pairs where the double product falls short (totals up to 250).
Pct(enriched_count, total_to_enrich) ==
    IF total_to_enrich > 0
    THEN (enriched_count * 100) \div total_to_enrich
            - (IF <<enriched_count, total_to_enrich>> \in FloatShortfall THEN 1 ELSE 0)
    ELSE 100

\* The result put in front of the buffer instead of behind it.
AppendResultInFront(buffer, result) == <<result>> \o buffer

\* Line 431: batch_buffer.append(result)
AppendResult(buffer, result) == Append(buffer, result)

\* The threshold test passing only once the buffer is over the batch size.
BufferFullLate(buffer) == Len(buffer) > BATCH_SIZE

\* Line 440: len(batch_buffer) >= BATCH_SIZE
BufferFull(buffer) == Len(buffer) >= BATCH_SIZE

\* No future counted as pending: as_completed exhausted at once.
PendingNone == {}

Pending == {i \in DOMAIN futures : ~futures[i].done}

\* ThreadPoolExecutor(max_workers=...) hands the submitted calls to its
\* workers in submission order: a call runs, and so can finish, only while
\* fewer than the pool's size of the calls submitted before it are unfinished.
Running(i) == Cardinality({j \in Pending : j < i}) < MaxWorkers

IsOvertake(i) == \E j \in Pending : j < i

\* Behaviours with an extraction call that never returns nor raises.
BehavioursNeverReturning(lead) ==
    IF lead.website = <<>> THEN {Raised} ELSE {}

\* What the extraction call of a lead can do in this run.
Behaviours(lead) ==
    IF lead.website = <<>> \/ ~cfg.anthropic_key THEN {Raised} ELSE PipelineBehaviours

CallKind(lead, result) ==
    IF lead.website = <<>> THEN "none"
    ELSE IF result.raises THEN "raised" ELSE "returned"

\* The future once its worker has finished.
Resolved(future, lead, outcome, worker) ==
    [future EXCEPT !.done = TRUE,
                   !.seq = Cardinality(DOMAIN futures \ Pending) + 1,
                   !.call = CallKind(lead, outcome),
                   !.raised = worker.raised,
                   !.payload = IF lead.website = <<>> THEN EmptyDict ELSE outcome.data,
                   !.result = worker.value]

\* One iteration of the as_completed loop (lines 427-445) for future i: the
\* worker's process_lead has returned, the result is appended to both lists,
\* progress is reported, and a full buffer is flushed and cleared.
Complete(i) ==
    /\ pc = "enriching"
    /\ i \in Pending
    /\ Running(i)
    /\ overtakes + (IF IsOvertake(i) THEN 1 ELSE 0) <= MaxOvertakes
    /\ overtakes' = overtakes + (IF IsOvertake(i) THEN 1 ELSE 0)
    /\ \E b \in Behaviours(RawLead(futures[i].lead)) :
          LET lead == RawLead(futures[i].lead)
              outcome == extract_contacts(cfg.anthropic_key, b)
              worker == process_lead(lead, query_1, outcome)
              futs == [futures EXCEPT ![i] = Resolved(@, lead, outcome, worker)]
              buffer == AppendResult(batch_buffer, i)
              enriched_count == Len(enriched_leads) + 1
              total_to_enrich == Len(unique_raw_leads)
          IN  /\ futures' = futs
              /\ IF worker.raised
                 THEN \* future.result() re-raises: "Worker exception" is logged
                      /\ UNCHANGED <<enriched_leads, progress_log, batch_buffer>>
                      /\ NoFlush
                 ELSE /\ enriched_leads' = Append(enriched_leads, i)
                      /\ progress_log' =
                            IF enriched_count % 5 = 0 \/ enriched_count = total_to_enrich
                            THEN update(progress_log, "enriching",
                                        Pct(enriched_count, total_to_enrich), None)
                            ELSE progress_log
                      /\ IF BufferFull(buffer)
                         THEN /\ \E o \in WriteOutcomes(buffer, futs) :
                                    save_batch(buffer, futs, o[1], o[2])
                              /\ batch_buffer' = <<>>
                         ELSE /\ NoFlush
                              /\ batch_buffer' = buffer
    /\ UNCHANGED <<cfg, pc, raw_leads, use_sheet, worksheet, unique_raw_leads, returned>>

\* Finalize without the flush of the remaining partial batch.
FinalizeWithoutFlush ==
    /\ pc = "enriching"
    /\ Pending = {}
    /\ NoFlush
    /\ progress_log' = update(progress_log, "finalizing", 100, None)
    /\ returned' = enriched_leads
    /\ pc' = "done"
    /\ UNCHANGED <<cfg, raw_leads, use_sheet, worksheet, unique_raw_leads, futures,
                   enriched_leads, batch_buffer, overtakes>>

\* Lines 447-455: after the pool has drained, flush the rest, report, return.
Finalize ==
    /\ pc = "enriching"
    /\ Pending = {}
    /\ IF batch_buffer # <<>>
       THEN \E o \in WriteOutcomes(batch_buffer, futures) :
               save_batch(batch_buffer, futures, o[1], o[2])
       ELSE NoFlush
    /\ progress_log' = update(progress_log, "finalizing", 100, None)
    /\ returned' = enriched_leads
    /\ pc' = "done"
    /\ UNCHANGED <<cfg, raw_leads, use_sheet, worksheet, unique_raw_leads, futures,
                   enriched_leads, batch_buffer, overtakes>>

Next ==
    \/ SearchFails
    \/ Search
    \/ ExpandFails
    \/ Expand
    \/ FinishScraping
    \/ SetupSink
    \/ FilterAndSubmit
    \/ \E i \in 1..Len(futures) : Complete(i)
    \/ Finalize

Spec == Init /\ [][Next]_vars

\* The run when every call of a collaborator eventually returns or raises and
\* every thread that can run eventually does: a step that stays possible is
\* eventually taken.
\* The runs followed to their end: the smallest limit, the sink being the
\* JSON file, the spreadsheet or the default flat file.
InitLive == Init /\ cfg.limit = 3 /\ ~cfg.force_csv

SpecLive == InitLive /\ [][Next]_vars /\ WF_vars(Next)

\* ------------------------------------------------------------ process_lead alone

\* One process_lead call on any raw lead of the world, with any behaviour of
\* extract_contacts, with and without the extraction credential.
InitWorker ==
    /\ cfg \in {c \in Configs : /\ c.apify_token /\ ~c.increase_radius
                               /\ ~c.sheet_url /\ ~c.force_csv /\ ~c.force_json}
    /\ pc = "worker"
    /\ \E id \in LeadIds :
          futures = <<NewFuture(id)>>
    /\ raw_leads = <<>>
    /\ progress_log = <<>>
    /\ use_sheet = FALSE
    /\ worksheet = FALSE
    /\ existing_ids = {}
    /\ sheet_rows = <<>>
    /\ csv_rows = <<>>
    /\ json_rows = <<>>
    /\ unique_raw_leads = <<>>
    /\ enriched_leads = <<>>
    /\ batch_buffer = <<>>
    /\ flushes = <<>>
    /\ overtakes = 0
    /\ returned = <<>>

CallProcessLead ==
    /\ pc = "worker"
    /\ \E b \in WorkerBehaviours :
          LET lead == RawLead(futures[1].lead)
              outcome == extract_contacts(cfg.anthropic_key, b)
              worker == process_lead(lead, query_1, outcome)
          IN  futures' = [futures EXCEPT ![1] = Resolved(@, lead, outcome, worker)]
    /\ pc' = "worker_done"
    /\ UNCHANGED <<cfg, raw_leads, progress_log, use_sheet, worksheet, existing_ids,
                   sheet_rows, csv_rows, json_rows, unique_raw_leads, enriched_leads,
                   batch_buffer, flushes, overtakes, returned>>

NextWorker == CallProcessLead

SpecWorker == InitWorker /\ [][NextWorker]_vars

\* ------------------------------------------------------------ the threads of the enriching stage

\* The enriching stage at the grain of its threads: the workers of the pool
\* run process_lead, the calling thread runs the as_completed loop statement
\* by statement.  pc is the calling thread's position.

\* process_lead appending its own result and re-checking the known keys.
process_lead_touches_shared == {"batch_buffer", "existing_ids"}

\* The objects of the run that the body of process_lead reads or writes other
\* than its arguments and its local dict: none.
process_lead_touches == {}

\* What the calling thread reads or writes at each position of the loop.
MainTouches(position) ==
    CASE position = "t_append" -> {"batch_buffer"}
      [] position = "t_check" -> {"batch_buffer"}
      [] position = "t_save" -> {"batch_buffer", "existing_ids"}
      [] position = "t_clear" -> {"batch_buffer"}
      [] OTHER -> {}

\* The threads that are using an object now; worker i is inside process_lead
\* from the moment the pool starts it until its future is done.
Accessors(obj) ==
    (IF obj \in MainTouches(pc) THEN {0} ELSE {})
    \cup {i \in Pending : Running(i) /\ obj \in process_lead_touches}

\* A result list with one listing twice, eleven entries.
DupList == <<8, 9, 10, 11, 12, 13, 14, 2, 5, 6, 8>>

ThreadResults == {BigList, DupList}

\* The run when every lead has been submitted (line 425): spreadsheet
\* requested, the worksheet opened or not, its keys loaded.
InitThreads ==
    /\ cfg \in {c \in Configs : /\ c.location = LocTX /\ c.limit = 12 /\ c.sheet_url
                                /\ ~c.force_csv /\ ~c.force_json}
    /\ pc = "t_wait"
    /\ \E r \in ThreadResults, opened \in BOOLEAN, rows \in SheetContents :
          /\ ~opened => rows = <<>>
          /\ raw_leads = Truncate(r, cfg.limit)
          /\ progress_log =
                update(update(update(update(<<>>, "scraping", 0, None),
                                     "scraping", 50, Some(Len(r))),
                              "scraping", 100, Some(Len(r))),
                       "enriching", 0, None)
          /\ use_sheet = opened
          /\ worksheet = opened
          /\ sheet_rows = rows
          /\ existing_ids = SeqRange(rows)
          /\ unique_raw_leads =
                FilterLeads(Truncate(r, cfg.limit), target_state(cfg.location),
                            SeqRange(rows))
          /\ futures =
                LET kept == FilterLeads(Truncate(r, cfg.limit),
                                        target_state(cfg.location), SeqRange(rows))
                IN  [i \in DOMAIN kept |-> NewFuture(kept[i])]
    /\ csv_rows = <<>>
    /\ json_rows = <<>>
    /\ enriched_leads = <<>>
    /\ batch_buffer = <<>>
    /\ flushes = <<>>
    /\ overtakes = 0
    /\ returned = <<>>

\* A worker's process_lead call returns: its future is done.
W_Finish(i) ==
    /\ pc \in {"t_wait", "t_append", "t_report", "t_check", "t_save", "t_clear"}
    /\ i \in Pending
    /\ Running(i)
    /\ overtakes + (IF IsOvertake(i) THEN 1 ELSE 0) <= MaxOvertakes
    /\ overtakes' = overtakes + (IF IsOvertake(i) THEN 1 ELSE 0)
    /\ \E b \in Behaviours(RawLead(futures[i].lead)) :
          LET lead == RawLead(futures[i].lead)
              outcome == extract_contacts(cfg.anthropic_key, b)
              worker == process_lead(lead, query_1, outcome)
          IN  futures' = [futures EXCEPT ![i] = Resolved(@, lead, outcome, worker)]
    /\ UNCHANGED <<cfg, pc, raw_leads, progress_log, use_sheet, worksheet, existing_ids,
                   sheet_rows, csv_rows, json_rows, unique_raw_leads, enriched_leads,
                   batch_buffer, flushes, returned>>

\* Lines 427-430: as_completed yields the done futures in their order of
\* completion; the result of the one yielded is appended to enriched_leads.
T_Yield(i) ==
    /\ pc = "t_wait"
    /\ i \in DOMAIN futures
    /\ futures[i].done
    /\ ~futures[i].raised
    /\ futures[i].seq = Len(enriched_leads) + 1
    /\ enriched_leads' = Append(enriched_leads, i)
    /\ pc' = "t_append"
    /\ UNCHANGED <<cfg, raw_leads, progress_log, use_sheet, worksheet, existing_ids,
                   sheet_rows, csv_rows, json_rows, unique_raw_leads, futures,
                   batch_buffer, flushes, overtakes, returned>>

\* Line 431: batch_buffer.append(result)
T_Append ==
    /\ pc = "t_append"
    /\ batch_buffer' = AppendResult(batch_buffer, enriched_leads[Len(enriched_leads)])
    /\ pc' = "t_report"
    /\ UNCHANGED <<cfg, raw_leads, progress_log, use_sheet, worksheet, existing_ids,
                   sheet_rows, csv_rows, json_rows, unique_raw_leads, futures,
                   enriched_leads, flushes, overtakes, returned>>

\* Lines 434-437: the progress report of the iteration.
T_Report ==
    /\ pc = "t_report"
    /\ LET enriched_count == Len(enriched_leads)
           total_to_enrich == Len(unique_raw_leads)
       IN  progress_log' =
              IF enriched_count % 5 = 0 \/ enriched_count = total_to_enrich
              THEN update(progress_log, "enriching",
                          Pct(enriched_count, total_to_enrich), None)
              ELSE progress_log
    /\ pc' = "t_check"
    /\ UNCHANGED <<cfg, raw_leads, use_sheet, worksheet, existing_ids,
                   sheet_rows, csv_rows, json_rows, unique_raw_leads, futures,
                   enriched_leads, batch_buffer, flushes, overtakes, returned>>

\* Line 440: if len(batch_buffer) >= BATCH_SIZE
T_Check ==
    /\ pc = "t_check"
    /\ pc' = IF BufferFull(batch_buffer) THEN "t_save" ELSE "t_wait"
    /\ UNCHANGED <<cfg, raw_leads, progress_log, use_sheet, worksheet, existing_ids,
                   sheet_rows, csv_rows, json_rows, unique_raw_leads, futures,
                   enriched_leads, batch_buffer, flushes, overtakes, returned>>

\* Line 441: save_batch(batch_buffer)
T_SaveBatch ==
    /\ pc = "t_save"
    /\ \E o \in WriteOutcomes(batch_buffer, futures) :
          save_batch(batch_buffer, futures, o[1], o[2])
    /\ pc' = "t_clear"
    /\ UNCHANGED <<cfg, raw_leads, progress_log, use_sheet, worksheet,
                   unique_raw_leads, futures, enriched_leads, batch_buffer,
                   overtakes, returned>>

\* Line 442: batch_buffer = []
T_Clear ==
    /\ pc = "t_clear"
    /\ batch_buffer' = <<>>
    /\ pc' = "t_wait"
    /\ UNCHANGED <<cfg, raw_leads, progress_log, use_sheet, worksheet, existing_ids,
                   sheet_rows, csv_rows, json_rows, unique_raw_leads, futures,
                   enriched_leads, flushes, overtakes, returned>>

\* Lines 447-455, once as_completed is exhausted and the pool has shut down.
T_Finalize ==
    /\ pc = "t_wait"
    /\ Pending = {}
    /\ Len(enriched_leads) = Len(futures)
    /\ IF batch_buffer # <<>>
       THEN \E o \in WriteOutcomes(batch_buffer, futures) :
               save_batch(batch_buffer, futures, o[1], o[2])
       ELSE NoFlush
    /\ progress_log' = update(progress_log, "finalizing", 100, None)
    /\ returned' = enriched_leads
    /\ pc' = "done"
    /\ UNCHANGED <<cfg, raw_leads, use_sheet, worksheet, unique_raw_leads, futures,
                   enriched_leads, batch_buffer, overtakes>>

NextThreads ==
    \/ \E i \in 1..Len(futures) : W_Finish(i)
    \/ \E i \in 1..Len(futures) : T_Yield(i)
    \/ T_Append
    \/ T_Report
    \/ T_Check
    \/ T_SaveBatch
    \/ T_Clear
    \/ T_Finalize

SpecThreads == InitThreads /\ [][NextThreads]_vars

\* ------------------------------------------------------------ ProgressReporter alone

\* ProgressReporter on its own (lines 71-112), statement by statement.  Here
\* cfg holds the constructor's arguments (given or not), progress_log the
\* calls of update with what each did, pc the position inside update.
ReporterConfigs == [job_id : BOOLEAN, supabase_url : BOOLEAN, supabase_key : BOOLEAN]

\* self.enabled = bool(supabase_url and supabase_key and job_id)
Enabled(c) == c.supabase_url /\ c.supabase_key /\ c.job_id

\* What client.patch may do: a 2xx response, another status, a timeout or
\* any other exception.
TransportOutcomes == {"ok", "status", "timeout", "exception"}

\* update sending the request once more when it failed.
PatchAttemptsRetrying(outcome) == IF outcome = "ok" THEN 1 ELSE 2

\* The PATCH requests of one update call with a given transport outcome.
PatchAttempts(outcome) == 1

\* The arguments update is called with.
UpdateArguments ==
    {<<"scraping", 0>>, <<"enriching", 50>>, <<"finalizing", 100>>}
       \X {None, Some(3)}

\* The JSON body of the request (lines 86-93).
PatchPayload(stage, progress, leads_found) ==
    IF leads_found # None
    THEN [stage |-> stage, progress |-> progress, leads_found |-> leads_found[1]]
    ELSE [stage |-> stage, progress |-> progress]

InitProgress ==
    /\ cfg \in ReporterConfigs
    /\ pc = "u_idle"
    /\ raw_leads = <<>>
    /\ progress_log = <<>>
    /\ use_sheet = FALSE
    /\ worksheet = FALSE
    /\ existing_ids = {}
    /\ sheet_rows = <<>>
    /\ csv_rows = <<>>
    /\ json_rows = <<>>
    /\ unique_raw_leads = <<>>
    /\ futures = <<>>
    /\ enriched_leads = <<>>
    /\ batch_buffer = <<>>
    /\ flushes = <<>>
    /\ overtakes = 0
    /\ returned = <<>>

ProgressFrame ==
    UNCHANGED <<cfg, raw_leads, use_sheet, worksheet, existing_ids, sheet_rows,
                csv_rows, json_rows, unique_raw_leads, futures, enriched_leads,
                batch_buffer, flushes, overtakes, returned>>

\* update is entered (line 80).
U_Call ==
    /\ pc = "u_idle"
    /\ Len(progress_log) < MaxCalls
    /\ \E a \in UpdateArguments :
          progress_log' =
             Append(progress_log,
                    [stage |-> a[1][1], progress |-> a[1][2], leads_found |-> a[2],
                     patches |-> 0, body |-> <<>>, outcome |-> "none",
                     raised |-> FALSE, returned |-> FALSE])
    /\ pc' = "u_called"
    /\ ProgressFrame

\* Lines 82-84: a disabled reporter prints and returns.
U_Disabled ==
    /\ pc = "u_called"
    /\ ~Enabled(cfg)
    /\ progress_log' = [progress_log EXCEPT ![Len(progress_log)].outcome = "disabled",
                                             ![Len(progress_log)].returned = TRUE]
    /\ pc' = "u_idle"
    /\ ProgressFrame

\* Lines 86-106: the payload is built and client.patch is called, inside the try.
U_Patch ==
    /\ pc = "u_called"
    /\ Enabled(cfg)
    /\ \E o \in TransportOutcomes :
          LET e == progress_log[Len(progress_log)]
          IN  progress_log' =
                 [progress_log EXCEPT
                    ![Len(progress_log)].patches = @ + PatchAttempts(o),
                    ![Len(progress_log)].body =
                         PatchPayload(e.stage, e.progress, e.leads_found),
                    ![Len(progress_log)].outcome = o]
    /\ pc' = "u_patched"
    /\ ProgressFrame

\* Lines 107-112: the outcome is printed, by the else branch or by the
\* except clause, and update returns.
U_Return ==
    /\ pc = "u_patched"
    /\ progress_log' = [progress_log EXCEPT ![Len(progress_log)].returned = TRUE]
    /\ pc' = "u_idle"
    /\ ProgressFrame

NextProgress ==
    \/ U_Call
    \/ U_Disabled
    \/ U_Patch
    \/ U_Return

SpecProgress == InitProgress /\ [][NextProgress]_vars

\* ------------------------------------------------------------ get_lead_id alone

\* Names and addresses that differ in letter case, in whitespace, or hold the
\* separator character.
KeyStrings ==
    { <<"a">>, <<"A">>, <<"a", " ">>, <<"c">>,
      <<"a", "|", "b">>, <<"b", "|", "c">> }

\* Two calls of get_lead_id on any two pairs, the first pair keyed twice.
\* Here cfg holds the two (name, address) pairs and returned the three keys.
InitKey ==
    /\ cfg \in [name_1 : KeyStrings, address_1 : KeyStrings,
                 name_2 : KeyStrings, address_2 : KeyStrings]
    /\ pc = "k_start"
    /\ raw_leads = <<>>
    /\ progress_log = <<>>
    /\ use_sheet = FALSE
    /\ worksheet = FALSE
    /\ existing_ids = {}
    /\ sheet_rows = <<>>
    /\ csv_rows = <<>>
    /\ json_rows = <<>>
    /\ unique_raw_leads = <<>>
    /\ futures = <<>>
    /\ enriched_leads = <<>>
    /\ batch_buffer = <<>>
    /\ flushes = <<>>
    /\ overtakes = 0
    /\ returned = <<>>

CallGetLeadId ==
    /\ pc = "k_start"
    /\ returned' = <<get_lead_id(cfg.name_1, cfg.address_1),
                     get_lead_id(cfg.name_2, cfg.address_2),
                     get_lead_id(cfg.name_1, cfg.address_1)>>
    /\ pc' = "k_done"
    /\ UNCHANGED <<cfg, raw_leads, progress_log, use_sheet, worksheet, existing_ids,
                   sheet_rows, csv_rows, json_rows, unique_raw_leads, futures,
                   enriched_leads, batch_buffer, flushes, overtakes>>

NextKey == CallGetLeadId

SpecKey == InitKey /\ [][NextKey]_vars

\* ------------------------------------------------------------ infer_name_from_email alone

\* Email values: two-part and one-part names, generic prefixes in both
\* cases, a one-letter part, parts with a digit, no '@', empty and None.
EmailValues ==
    { EmailJoEd, EmailInfo, EmailBob,
      JStr(<<"j","e","d","@","x">>),
      JStr(<<"j","@","x">>),
      JStr(<<"I","n","f","o","@","x">>),
      JStr(<<"h","e","l","l","o","@","x">>),
      JStr(<<"a","-","b",".","c","d","@","x">>),
      JStr(<<"j","0",".","e","d","@","x">>),
      JStr(<<"n","o","a","t">>),
      JStr(<<>>),
      JNull }

\* Two calls of infer_name_from_email.  Here cfg holds the two arguments and
\* returned the two results.
InitInfer ==
    /\ cfg \in [email_1 : EmailValues, email_2 : EmailValues]
    /\ pc = "i_start"
    /\ raw_leads = <<>>
    /\ progress_log = <<>>
    /\ use_sheet = FALSE
    /\ worksheet = FALSE
    /\ existing_ids = {}
    /\ sheet_rows = <<>>
    /\ csv_rows = <<>>
    /\ json_rows = <<>>
    /\ unique_raw_leads = <<>>
    /\ futures = <<>>
    /\ enriched_leads = <<>>
    /\ batch_buffer = <<>>
    /\ flushes = <<>>
    /\ overtakes = 0
    /\ returned = <<>>

CallInferName ==
    /\ pc = "i_start"
    /\ returned' = <<infer_name_from_email(cfg.email_1),
                     infer_name_from_email(cfg.email_2)>>
    /\ pc' = "i_done"
    /\ UNCHANGED <<cfg, raw_leads, progress_log, use_sheet, worksheet, existing_ids,
                   sheet_rows, csv_rows, json_rows, unique_raw_leads, futures,
                   enriched_leads, batch_buffer, flushes, overtakes>>

NextInfer == CallInferName

SpecInfer == InitInfer /\ [][NextInfer]_vars

\* ------------------------------------------------------------ the progress reports of the completion loop alone

\* The completion loop (lines 427-437) with its reports only, for any number
\* of leads to enrich.  Here cfg holds total_to_enrich, enriched_leads the
\* results so far (by place of completion) and progress_log the events from
\* the enriching-0 event of line 376 on.
ReportTotals == {0, 1, 4, 5, 7, 10, 50, 250}

InitReport ==
    /\ cfg \in [total_to_enrich : ReportTotals]
    /\ pc = "r_loop"
    /\ progress_log = update(<<>>, "enriching", 0, None)
    /\ enriched_leads = <<>>
    /\ raw_leads = <<>>
    /\ use_sheet = FALSE
    /\ worksheet = FALSE
    /\ existing_ids = {}
    /\ sheet_rows = <<>>
    /\ csv_rows = <<>>
    /\ json_rows = <<>>
    /\ unique_raw_leads = <<>>
    /\ futures = <<>>
    /\ batch_buffer = <<>>
    /\ flushes = <<>>
    /\ overtakes = 0
    /\ returned = <<>>

ReportFrame ==
    UNCHANGED <<cfg, raw_leads, use_sheet, worksheet, existing_ids, sheet_rows,
                csv_rows, json_rows, unique_raw_leads, futures, batch_buffer,
                flushes, overtakes, returned>>

\* Lines 430-437: one more result, and the report of the iteration.
R_Complete ==
    /\ pc = "r_loop"
    /\ Len(enriched_leads) < cfg.total_to_enrich
    /\ LET enriched_count == Len(enriched_leads) + 1
           total_to_enrich == cfg.total_to_enrich
       IN  /\ enriched_leads' = Append(enriched_leads, enriched_count)
           /\ progress_log' =
                 IF enriched_count % 5 = 0 \/ enriched_count = total_to_enrich
                 THEN update(progress_log, "enriching",
                             Pct(enriched_count, total_to_enrich), None)
                 ELSE progress_log
    /\ pc' = "r_loop"
    /\ ReportFrame

\* Line 452, once as_completed is exhausted.
R_Finish ==
    /\ pc = "r_loop"
    /\ Len(enriched_leads) = cfg.total_to_enrich
    /\ progress_log' = update(progress_log, "finalizing", 100, None)
    /\ pc' = "r_done"
    /\ UNCHANGED enriched_leads
    /\ ReportFrame

NextReport ==
    \/ R_Complete
    \/ R_Finish

SpecReport == InitReport /\ [][NextReport]_vars

\* ------------------------------------------------------------ the webhook (modal_webhook.py)

\* One request to the webhook and the background run it may spawn.  Here cfg
\* holds the request body, returned the webhook's response, futures the
\* spawned run_pipeline invocations and pc the position: in webhook up to
\* the response, then in run_pipeline.
required_fields ==
    {"job_id", "user_id", "niche", "location", "apify_token", "anthropic_key",
     "callback_url", "callback_secret", "supabase_url", "supabase_key"}

\* A field of the body: absent, present with a falsy value ("" or None), or
\* present with a value (the value of a field is written as the field's name).
FieldStates == {"absent", "empty", "value"}

\* The request bodies explored: complete, or with one required field absent
\* or empty; the two optional fields given or not.
Requests ==
    [fields : {[f \in required_fields |-> IF f = g THEN s ELSE "value"] :
                   g \in required_fields, s \in FieldStates},
     limit : {None, Some(3)},
     increase_radius : {None, Some(FALSE)}]

\* The test `f not in data` in place of `not data.get(f)`.
MissingAbsentOnly(data) == {f \in required_fields : data.fields[f] = "absent"}

\* Line 132: [f for f in required_fields if not data.get(f)]
Missing(data) == {f \in required_fields : data.fields[f] # "value"}

\* What run_gmaps_pipeline may do for run_pipeline: return a list of leads or
\* raise an exception with some message (possibly the empty one).
PipelineOutcomes ==
    {[raises |-> FALSE, leads |-> l, message |-> <<>>] : l \in {<<>>, <<1>>, <<1, 2>>}}
    \cup {[raises |-> TRUE, leads |-> <<>>, message |-> m] : m \in {<<>>, <<"e">>}}

\* What client.post may do: a 200 response, another status, an exception.
CallbackOutcomes == {"200", "status", "exception"}

\* Lines 59-66: the result dict before the pipeline is called.
InitialResult(args) ==
    [job_id |-> args.job_id, user_id |-> args.user_id, secret |-> args.callback_secret,
     status |-> "success", leads |-> <<>>, error |-> None]

\* Lines 68-93: the result dict after the pipeline call.
ResultAfter(result, outcome) ==
    IF outcome.raises
    THEN [result EXCEPT !.status = "error", !.error = Some(outcome.message)]
    ELSE [result EXCEPT !.leads = outcome.leads] @@ [leads_count |-> Len(outcome.leads)]

InitWebhook ==
    /\ cfg \in Requests
    /\ pc = "w_received"
    /\ futures = <<>>
    /\ returned = <<>>
    /\ raw_leads = <<>>
    /\ progress_log = <<>>
    /\ use_sheet = FALSE
    /\ worksheet = FALSE
    /\ existing_ids = {}
    /\ sheet_rows = <<>>
    /\ csv_rows = <<>>
    /\ json_rows = <<>>
    /\ unique_raw_leads = <<>>
    /\ enriched_leads = <<>>
    /\ batch_buffer = <<>>
    /\ flushes = <<>>
    /\ overtakes = 0

WebhookFrame ==
    UNCHANGED <<cfg, raw_leads, progress_log, use_sheet, worksheet, existing_ids,
                sheet_rows, csv_rows, json_rows, unique_raw_leads, enriched_leads,
                batch_buffer, flushes, overtakes>>

\* Lines 132-134: a body with a missing field is answered with an error.
W_Reject ==
    /\ pc = "w_received"
    /\ Missing(cfg) # {}
    /\ returned' = [status |-> "error", missing |-> Missing(cfg)]
    /\ pc' = "w_rejected"
    /\ UNCHANGED futures
    /\ WebhookFrame

\* The keyword arguments of run_pipeline.spawn (lines 138-151).
SpawnArguments(data) ==
    [f \in required_fields |-> f]
       @@ [limit |-> IF data.limit = None THEN 50 ELSE data.limit[1],
           increase_radius |-> IF data.increase_radius = None
                               THEN TRUE ELSE data.increase_radius[1]]

\* Lines 136-157: the run is spawned and the request accepted.
W_Spawn ==
    /\ pc = "w_received"
    /\ Missing(cfg) = {}
    /\ futures' = <<[args |-> SpawnArguments(cfg), pipeline |-> "pending",
                     result |-> InitialResult(SpawnArguments(cfg)),
                     posts |-> <<>>, raised |-> FALSE, returned |-> None]>>
    /\ returned' = [status |-> "accepted", job_id |-> "job_id"]
    /\ pc' = "p_start"
    /\ WebhookFrame

\* Lines 159-161: spawn raised; the request is answered with an error.
W_SpawnFails ==
    /\ pc = "w_received"
    /\ Missing(cfg) = {}
    /\ returned' = [status |-> "error", missing |-> {}]
    /\ pc' = "w_failed"
    /\ UNCHANGED futures
    /\ WebhookFrame

\* Lines 68-93: run_gmaps_pipeline returns or raises inside the try.
P_RunPipeline ==
    /\ pc = "p_start"
    /\ \E outcome \in PipelineOutcomes :
          futures' = [futures EXCEPT
                         ![1].pipeline = IF outcome.raises THEN "raised" ELSE "returned",
                         ![1].result = ResultAfter(@, outcome)]
    /\ pc' = "p_callback"
    /\ UNCHANGED returned
    /\ WebhookFrame

\* Lines 96-111: one client.post with the result as its JSON body, inside a
\* try whose except clause only prints.
P_Callback ==
    /\ pc = "p_callback"
    /\ \E o \in CallbackOutcomes :
          futures' = [futures EXCEPT
                         ![1].posts = Append(@, [body |-> futures[1].result,
                                                 outcome |-> o])]
    /\ pc' = "p_return"
    /\ UNCHANGED returned
    /\ WebhookFrame

\* Line 113: return result
P_Return ==
    /\ pc = "p_return"
    /\ futures' = [futures EXCEPT ![1].returned = Some(futures[1].result)]
    /\ pc' = "p_done"
    /\ UNCHANGED returned
    /\ WebhookFrame

NextWebhook ==
    \/ W_Reject
    \/ W_Spawn
    \/ W_SpawnFails
    \/ P_RunPipeline
    \/ P_Callback
    \/ P_Return

SpecWebhook == InitWebhook /\ [][NextWebhook]_vars

\* ------------------------------------------------------------ properties

Occ(s, x) == Cardinality({i \in DOMAIN s : s[i] = x})

NoRepeat(s) == \A i, j \in DOMAIN s : i # j => s[i] # s[j]

\* In how many places of the flushed batches future f stands.
FlushCount(f) ==
    Cardinality({p \in (DOMAIN flushes) \X (1..BATCH_SIZE) :
                    /\ p[2] \in DOMAIN flushes[p[1]].batch
                    /\ flushes[p[1]].batch[p[2]] = f})

\* An enrichment field that is absent, empty, None or False.
EmptyField(d, k) ==
    \/ k \notin DOMAIN d
    \/ IF k = "emails" THEN d[k] = <<>> ELSE ~Truthy(d[k])

EnrichmentEmpty(d) == \A k \in EnrichmentFields : EmptyField(d, k)

FailedFlush(fl) == fl.writes # <<>> /\ ~fl.writes[1].ok

\* C1: every enriched lead is handed to save_batch in exactly one batch:
\* never in two, while the run goes on it is either in one flushed batch or
\* still in the buffer, and when the run has returned it is in exactly one
\* flushed batch (the final partial batch included).
C1_EachLeadFlushedOnce ==
    \A f \in DOMAIN futures :
       /\ FlushCount(f) <= 1
       /\ pc = "enriching" /\ Occ(enriched_leads, f) > 0
             => FlushCount(f) + Occ(batch_buffer, f) = 1
       /\ pc = "done" => FlushCount(f) = 1

C1_Witness ==
    /\ pc = "done"
    /\ overtakes > 0
    /\ Len(flushes) = 2
    /\ Len(flushes[1].batch) = BATCH_SIZE
    /\ Len(flushes[2].batch) = 1

StageRank(stage) ==
    CASE stage = "scraping" -> 1
      [] stage = "enriching" -> 2
      [] stage = "finalizing" -> 3

\* C3: progress events come in the stage order scraping, enriching,
\* finalizing, never going back, and the last event of a stage carries 100
\* before the first event of the next stage.
C3_StagesInOrderEndingAt100 ==
    \A i \in 1..(Len(progress_log) - 1) :
       /\ StageRank(progress_log[i].stage) <= StageRank(progress_log[i + 1].stage)
       /\ progress_log[i].stage # progress_log[i + 1].stage
             => progress_log[i].progress = 100

\* C4: within a stage the reported percentages never decrease.
C4_PercentageMonotoneInStage ==
    \A i, j \in DOMAIN progress_log :
       i < j /\ progress_log[i].stage = progress_log[j].stage
          => progress_log[i].progress <= progress_log[j].progress

C4_Witness ==
    /\ pc = "done"
    /\ overtakes > 0
    /\ Cardinality({i \in DOMAIN progress_log :
                      /\ progress_log[i].stage = "enriching"
                      /\ progress_log[i].progress \in 1..99}) >= 2

RawFieldsCarried(result, lead) ==
    /\ result.lead_id = get_lead_id(lead.name, lead.address)
    /\ result.business_name = lead.name
    /\ result.category = lead.category
    /\ result.rating = lead.rating
    /\ result.review_count = lead.reviews
    /\ result.address = lead.address
    /\ result.city = lead.city
    /\ result.state = lead.state
    /\ result.phone = lead.phone
    /\ result.website = lead.website

\* C5: process_lead never raises to its caller; the record it returns carries
\* the lead key and the raw-lead fields, and when the extraction call raised
\* every enrichment field of the record is empty or false.
C5_ProcessLeadNeverRaises ==
    \A f \in DOMAIN futures :
       futures[f].done =>
          /\ ~futures[f].raised
          /\ RawFieldsCarried(futures[f].result, RawLead(futures[f].lead))
          /\ futures[f].call = "raised" => EnrichmentEmpty(futures[f].result)

C5_Witness ==
    /\ pc = "worker_done"
    /\ cfg.anthropic_key
    /\ futures[1].call = "raised"
    /\ ~futures[1].raised
    /\ DOMAIN futures[1].result \cap EnrichmentFields = {}

\* C6: whichever sink is the primary one, a batch whose primary write failed
\* is offered to a secondary sink.
C6_FailedWriteFallsBack ==
    \A k \in DOMAIN flushes :
       FailedFlush(flushes[k]) =>
          /\ Len(flushes[k].writes) >= 2
          /\ flushes[k].writes[2].sink # flushes[k].writes[1].sink

\* C7: a failed flush never aborts the run: one flush makes at most one
\* fallback write, and only after a failed primary write; after a failed
\* flush the run is enriching or done and can always go on; and a run that
\* returned has returned every submitted lead and flushed each of them.
C7_FlushFailureNeverAborts ==
    /\ \A k \in DOMAIN flushes :
          /\ Len(flushes[k].writes) <= 2
          /\ Len(flushes[k].writes) = 2 => ~flushes[k].writes[1].ok
    /\ (\E k \in DOMAIN flushes : FailedFlush(flushes[k]))
          => /\ pc \in {"enriching", "done"}
             /\ pc = "enriching" => Pending # {} \/ ENABLED Finalize
    /\ pc = "done"
          => /\ Len(returned) = Len(futures)
             /\ \A f \in DOMAIN futures : Occ(returned, f) = 1 /\ FlushCount(f) = 1
             /\ progress_log[Len(progress_log)].stage = "finalizing"

C7_Witness ==
    /\ pc = "done"
    /\ Len(flushes) = 2
    /\ Len(flushes[1].writes) = 2
    /\ ~flushes[1].writes[1].ok
    /\ ~flushes[1].writes[2].ok
    /\ FailedFlush(flushes[2])
    /\ Len(returned) > BATCH_SIZE

\* C8: for each of the three sinks, a lead whose key was already offered is
\* skipped, so no key is persisted twice by one run (for the worksheet: when
\* its keys were loaded into the known-key set).
C8_OnePersistedOccurrencePerKey ==
    /\ NoRepeat(csv_rows)
    /\ NoRepeat(json_rows)
    /\ SeqRange(sheet_rows) \subseteq existing_ids => NoRepeat(sheet_rows)

\* C9: the raw leads submitted to enrichment have pairwise distinct keys.
C9_SubmittedKeysDistinct ==
    \A i, j \in DOMAIN futures :
       i # j => KeyOf(futures[i].lead) # KeyOf(futures[j].lead)

\* C10: every lead submitted to the worker pool passed both filters: the
\* state filter does not reject it, and its key is not in the known-key set
\* loaded from the sink (the set as it is before the first flush).
C10_OnlyFilteredLeadsSubmitted ==
    pc \in {"enriching", "done"} =>
       LET target == target_state(cfg.location)
       IN  \A f \in DOMAIN futures :
              /\ ~WrongLocation(RawLead(futures[f].lead), target)
              /\ cfg.location = LocTX => futures[f].lead # 4
              /\ flushes = <<>> => KeyOf(futures[f].lead) \notin existing_ids
              /\ flushes = <<>> /\ existing_ids # {} => futures[f].lead # 2

C10_Witness ==
    /\ pc = "enriching"
    /\ existing_ids # {}
    /\ futures # <<>>
    /\ \E i \in DOMAIN raw_leads :
          WrongLocation(RawLead(raw_leads[i]), target_state(cfg.location))
    /\ \E i \in DOMAIN raw_leads : KeyOf(raw_leads[i]) \in existing_ids

\* How many leads of the truncated raw list satisfy a test.
KnownAt(i) == KeyOf(raw_leads[i]) \in existing_ids

WrongAt(i) == WrongLocation(RawLead(raw_leads[i]), target_state(cfg.location))

CountRaw(Test(_)) == Cardinality({i \in DOMAIN raw_leads : Test(i)})

KnownAndRightAt(i) == KnownAt(i) /\ ~WrongAt(i)

WrongAndUnknownAt(i) == WrongAt(i) /\ ~KnownAt(i)

\* C11 (as amended): of N raw leads, K dropped by the state filter and M of
\* the others with a known key, exactly N - M - K are passed to enrichment;
\* the count, and the list, is the same when the known-key filter is applied
\* first (M counted over all leads, K over the leads it leaves).
C11_FilteredCount ==
    pc = "enriching" /\ flushes = <<>> =>
       /\ Len(unique_raw_leads)
             = Len(raw_leads) - CountRaw(WrongAt) - CountRaw(KnownAndRightAt)
       /\ Len(unique_raw_leads)
             = Len(raw_leads) - CountRaw(KnownAt) - CountRaw(WrongAndUnknownAt)
       /\ unique_raw_leads
             = FilterKnownFirst(raw_leads, target_state(cfg.location), existing_ids)

C11_Witness ==
    /\ pc = "enriching"
    /\ flushes = <<>>
    /\ CountRaw(WrongAt) > 0
    /\ CountRaw(KnownAt) > 0
    /\ Len(unique_raw_leads) > 0
    /\ Len(unique_raw_leads) < Len(raw_leads) - 1

\* C11 as stated: M counts every lead with a known key and K every lead the
\* state filter drops.
C11_CountWithOverlap ==
    pc = "enriching" /\ flushes = <<>> =>
       Len(unique_raw_leads) = Len(raw_leads) - CountRaw(KnownAt) - CountRaw(WrongAt)

\* The keys that two different flushes both took for new.
NovelTwice ==
    {p \in (DOMAIN flushes) \X (DOMAIN flushes) :
        /\ p[1] < p[2]
        /\ SeqRange(flushes[p[1]].novel) \cap SeqRange(flushes[p[2]].novel) # {}}

\* C12: under every interleaving of the workers with the calling thread, at
\* most one thread at a time uses the known-key set, and the batch buffer;
\* the append to the buffer is followed by its own threshold check with no
\* other result appended in between, so the buffer never exceeds the batch
\* size and no lead is in two flushed batches; and no key is taken for new
\* by two flushes, or twice by one.
C12_SingleOwnerOfBufferAndKeys ==
    /\ \A obj \in {"batch_buffer", "existing_ids"} : Cardinality(Accessors(obj)) <= 1
    /\ Len(batch_buffer) <= BATCH_SIZE
    /\ pc \in {"t_report", "t_check"}
          => /\ batch_buffer # <<>>
             /\ batch_buffer[Len(batch_buffer)] = enriched_leads[Len(enriched_leads)]
    /\ pc = "t_save" => Len(batch_buffer) = BATCH_SIZE
    /\ \A f \in DOMAIN futures :
          /\ FlushCount(f) <= 1
          /\ pc \notin {"t_clear", "done"} => FlushCount(f) + Occ(batch_buffer, f) <= 1
    /\ NovelTwice = {}
    /\ \A k \in DOMAIN flushes : NoRepeat(flushes[k].novel)

C12_Witness ==
    /\ pc = "t_check"
    /\ Len(batch_buffer) = BATCH_SIZE
    /\ \E i \in DOMAIN futures : futures[i].done /\ Occ(enriched_leads, i) = 0
    /\ use_sheet
    /\ overtakes > 0

\* C13: when the search credential or the extraction credential is missing
\* the run raises before any stage begins: no progress event is reported, no
\* search, enrichment or flush takes place.
C13_MissingCredentialRaisesFirst ==
    ~cfg.apify_token \/ ~cfg.anthropic_key =>
       /\ pc \in {"start", "raised"}
       /\ progress_log = <<>>
       /\ futures = <<>>
       /\ flushes = <<>>

\* The name the inference is documented to give (docstring and comments of
\* lines 36-66): none for an empty value, a generic prefix or no alphabetic
\* segment of two letters or more; otherwise the segments, title-cased.
DocumentedName(email) ==
    IF ~Truthy(email) \/ email.t # "str" THEN JNull
    ELSE LET local_part == Lower(Split(email.v, "@")[1])
             valid_parts == SelectSeq(ReSplit(local_part), ValidPart)
         IN  IF local_part \in GENERIC_EMAIL_PREFIXES \/ valid_parts = <<>>
             THEN JNull
             ELSE JStr(Join(TitleAll(valid_parts), <<" ">>))

\* The first non-empty value of a chain, none when there is none.
RECURSIVE FirstNonEmpty(_)
FirstNonEmpty(chain) ==
    IF chain = <<>> THEN JNull
    ELSE IF Truthy(Head(chain)) THEN Head(chain)
    ELSE FirstNonEmpty(Tail(chain))

\* The owner-name chain of a well-formed payload: the extracted owner name,
\* the name inferred from the owner's email, the name inferred from the first
\* extracted email.
OwnerNameChain(data) ==
    LET owner == OrElse(Get(data, "owner_info", JNull), JObj(EmptyDict)).v
        emails == OrElse(Get(data, "emails", JNull), JList(<<>>)).v
    IN  <<Get(owner, "name", JNull),
          DocumentedName(Get(owner, "email", JNull)),
          IF emails = <<>> THEN JNull ELSE DocumentedName(emails[1])>>

\* C14: the owner name of the returned record is the first non-empty result
\* of the chain, each step that yields nothing letting the next be tried.
C14_OwnerNameIsFirstOfChain ==
    \A f \in DOMAIN futures :
       futures[f].done /\ futures[f].call = "returned"
                       /\ "owner_name" \in DOMAIN futures[f].result
          => LET expected == FirstNonEmpty(OwnerNameChain(futures[f].payload))
                 got == futures[f].result.owner_name
             IN  IF Truthy(expected) THEN got = expected ELSE ~Truthy(got)

\* C15: ProgressReporter.update never raises and never retries: whatever the
\* transport does, a call makes at most one PATCH (exactly one when the
\* reporter is enabled, none when it is disabled) and returns normally
\* before the next call; it leaves the leads and the batches of the run alone.
C15_UpdateNeverRaisesNorRetries ==
    /\ \A k \in DOMAIN progress_log :
          /\ ~progress_log[k].raised
          /\ progress_log[k].patches <= 1
          /\ ~Enabled(cfg) => progress_log[k].patches = 0
          /\ progress_log[k].returned
                => progress_log[k].patches = (IF Enabled(cfg) THEN 1 ELSE 0)
          /\ k < Len(progress_log) => progress_log[k].returned
    /\ pc = "u_idle" => \A k \in DOMAIN progress_log : progress_log[k].returned
    /\ pc = "u_patched" => ENABLED U_Return
    /\ returned = <<>> /\ flushes = <<>> /\ enriched_leads = <<>> /\ batch_buffer = <<>>

C15_Witness ==
    /\ pc = "u_idle"
    /\ Len(progress_log) = 2
    /\ progress_log[1].outcome = "exception"
    /\ progress_log[1].returned
    /\ progress_log[2].outcome = "status"
    /\ progress_log[2].patches = 1

\* The sink a flush wrote to first.
PrimaryOf(fl) == fl.writes[1].sink

\* C16: the primary sink is the same for every flush of a run and follows
\* the precedence: a file-format override (force_json, force_csv) wins over
\* the spreadsheet, which is used only when sheet_url is set, no override is
\* given and the worksheet was opened; otherwise the flat file.
C16_SinkByPrecedence ==
    \A k \in DOMAIN flushes :
       flushes[k].writes # <<>> =>
          LET s == PrimaryOf(flushes[k])
              override == cfg.force_json \/ cfg.force_csv
          IN  /\ override => s \in {"json", "csv"}
              /\ s = "json" => cfg.force_json
              /\ override /\ s = "csv" => cfg.force_csv
              /\ ~override /\ cfg.sheet_url /\ worksheet => s = "sheet"
              /\ ~override /\ ~(cfg.sheet_url /\ worksheet) => s = "csv"
              /\ s = "sheet" => cfg.sheet_url /\ ~override /\ worksheet
              /\ \A j \in DOMAIN flushes :
                    flushes[j].writes # <<>> => PrimaryOf(flushes[j]) = s

C16_Witness ==
    /\ pc = "done"
    /\ Len(flushes) = 2
    /\ cfg.sheet_url
    /\ cfg.force_json
    /\ flushes[1].writes # <<>> /\ PrimaryOf(flushes[1]) = "json"
    /\ flushes[2].writes # <<>> /\ PrimaryOf(flushes[2]) = "json"

\* The leads_found of the last scraping event: the length of the merged list.
MergedLength ==
    LET last == CHOOSE k \in DOMAIN progress_log :
                   /\ progress_log[k].stage = "scraping"
                   /\ \A j \in DOMAIN progress_log :
                         progress_log[j].stage = "scraping" => j <= k
    IN  progress_log[last].leads_found[1]

\* C17: after the scraping stage the raw-lead list has at most `limit`
\* entries (the merged list's length when that is smaller), it is a prefix of
\* the merged list, and no more than `limit` leads are enriched or returned.
C17_TruncatedToLimit ==
    /\ [](pc \in {"scraped", "sink_ready", "enriching", "done"}
            => /\ Len(raw_leads) <= cfg.limit
               /\ Len(raw_leads) = (IF MergedLength < cfg.limit
                                     THEN MergedLength ELSE cfg.limit)
               /\ Len(futures) <= cfg.limit
               /\ Len(returned) <= cfg.limit)
    /\ [][pc # "scraped" /\ pc' = "scraped"
            => raw_leads' = SubSeq(raw_leads, 1, Len(raw_leads'))]_vars

C17_Witness ==
    /\ pc = "done"
    /\ cfg.limit = 3
    /\ cfg.increase_radius
    /\ MergedLength = 4
    /\ Len(returned) = 3

\* C18: get_lead_id is deterministic, and two different (name, address)
\* pairs never get the same key, whether they differ in letter case, in
\* whitespace, or hold the separator character.
C18_KeysCollisionFree ==
    pc = "k_done" =>
       /\ returned[1] = returned[3]
       /\ <<cfg.name_1, cfg.address_1>> # <<cfg.name_2, cfg.address_2>>
             => returned[1] # returned[2]

\* The generic prefixes as the claim lists them.
ListedGenericPrefixes == GENERIC_EMAIL_PREFIXES \ { <<"h","e","l","l","o">> }

\* What C19 says infer_name_from_email returns.
ClaimedName(email) ==
    IF ~Truthy(email) \/ email.t # "str" THEN JNull
    ELSE IF ~Contains(email.v, <<"@">>) THEN JNull
    ELSE LET local_part == Lower(Split(email.v, "@")[1])
             valid_parts == SelectSeq(ReSplit(local_part), ValidPart)
         IN  IF local_part \in ListedGenericPrefixes \/ valid_parts = <<>>
             THEN JNull
             ELSE JStr(Join(TitleAll(valid_parts), <<" ">>))

\* C19: infer_name_from_email returns none exactly for an empty or malformed
\* input, a listed generic prefix, or no alphabetic segment longer than one
\* character; otherwise the segments title-cased and joined by one space.
C19_InferredNameAsListed ==
    pc = "i_done" =>
       /\ returned[1] = ClaimedName(cfg.email_1)
       /\ returned[2] = ClaimedName(cfg.email_2)

RECURSIVE FlushedSoFar(_)
FlushedSoFar(k) == IF k = 0 THEN <<>> ELSE FlushedSoFar(k - 1) \o flushes[k].batch

\* C21 (as amended): the list of enriched leads is in completion order;
\* while the completion loop runs, the batches already handed to save_batch,
\* end to end and followed by the batch buffer, are that list; and when the
\* run has returned, the flushed batches end to end are the returned list.
C21_BatchesInCompletionOrder ==
    /\ \A k \in DOMAIN enriched_leads : futures[enriched_leads[k]].seq = k
    /\ pc = "enriching"
          => FlushedSoFar(Len(flushes)) \o batch_buffer = enriched_leads
    /\ pc = "done"
          => /\ FlushedSoFar(Len(flushes)) = returned
             /\ returned = enriched_leads

C21_Witness ==
    /\ pc = "done"
    /\ Len(flushes) = 2
    /\ overtakes > 0
    /\ enriched_leads[1] # 1
    /\ batch_buffer # <<>>
    /\ flushes[2].batch = batch_buffer

\* C21 as stated: at every point of the run, the end included, the flushed
\* batches followed by the batch buffer are the list of enriched leads.
C21_FlushedThenBufferAtEveryPoint ==
    /\ FlushedSoFar(Len(flushes)) \o batch_buffer = enriched_leads
    /\ pc = "done" => FlushedSoFar(Len(flushes)) = returned

\* The batch of the flush a step has just made.
LastBatch == flushes'[Len(flushes')].batch

\* C22 (as amended): the batch buffer never holds more than BATCH_SIZE
\* leads and no flushed batch is empty; a batch flushed inside the
\* completion loop has exactly BATCH_SIZE leads and the buffer is empty right
\* after it; the batch flushed after the loop has between 1 and
\* BATCH_SIZE - 1 leads, and the buffer still holds it when the run returns.
C22_BufferBoundedAndFlushSizes ==
    /\ [](/\ Len(batch_buffer) <= BATCH_SIZE
          /\ \A k \in DOMAIN flushes : flushes[k].batch # <<>>)
    /\ [][flushes' # flushes
            => /\ Len(flushes') = Len(flushes) + 1
               /\ IF pc' = "enriching"
                  THEN /\ Len(LastBatch) = BATCH_SIZE
                       /\ batch_buffer' = <<>>
                  ELSE /\ pc' = "done"
                       /\ Len(LastBatch) \in 1..(BATCH_SIZE - 1)
                       /\ batch_buffer' = LastBatch]_vars

C22_Witness ==
    /\ pc = "done"
    /\ cfg.force_json
    /\ Len(flushes) = 2
    /\ Len(flushes[1].batch) = BATCH_SIZE
    /\ Len(flushes[2].batch) \in 1..(BATCH_SIZE - 1)
    /\ batch_buffer = flushes[2].batch

\* C22 as stated: the buffer is empty right after each flush, the one after
\* the loop included.
C22_BufferEmptyAfterEachFlush ==
    /\ [](/\ Len(batch_buffer) <= BATCH_SIZE
          /\ \A k \in DOMAIN flushes : flushes[k].batch # <<>>)
    /\ [][flushes' # flushes
            => /\ pc' = "enriching" => Len(LastBatch) = BATCH_SIZE
               /\ pc' = "done" => Len(LastBatch) \in 1..(BATCH_SIZE - 1)
               /\ batch_buffer' = <<>>]_vars

\* The stage a position of the run belongs to: idle, scraping (the searches,
\* the truncation, the sink set-up and the filters), enriching, done; a run
\* that raised has left the stages.
StageOf(position) ==
    CASE position = "start" -> 0
      [] position \in {"searched", "expanded", "scraped", "sink_ready"} -> 1
      [] position = "enriching" -> 2
      [] position = "done" -> 3
      [] position = "raised" -> 4

Reported(stage, progress) ==
    \E k \in DOMAIN progress_log :
       progress_log[k].stage = stage /\ progress_log[k].progress = progress

\* C23: the stages follow one another and none is entered again; no
\* process_lead call is submitted before the scraping stage has reported 100
\* and the filters have produced the list of leads to enrich; and the
\* finalizing event is reported only when every worker has completed and
\* every enriched lead, the remaining partial batch included, has been
\* handed to save_batch.
C23_StagesSequential ==
    /\ [][StageOf(pc') >= StageOf(pc)]_vars
    /\ [](futures # <<>>
            => /\ pc \in {"enriching", "done"}
               /\ Reported("scraping", 100)
               /\ Reported("enriching", 0)
               /\ flushes = <<>>
                     => unique_raw_leads
                           = FilterLeads(raw_leads, target_state(cfg.location),
                                         existing_ids)
               /\ \A f \in DOMAIN futures : futures[f].lead = unique_raw_leads[f])
    /\ [](\A k \in DOMAIN progress_log :
             progress_log[k].stage = "finalizing"
                => /\ pc = "done"
                   /\ k = Len(progress_log)
                   /\ \A f \in DOMAIN futures :
                         /\ futures[f].done
                         /\ Occ(enriched_leads, f) = 1
                         /\ FlushCount(f) = 1)

C23_Witness ==
    /\ pc = "done"
    /\ cfg.increase_radius
    /\ Reported("scraping", 90)
    /\ Len(futures) >= 4
    /\ \E f \in DOMAIN futures : futures[f].call = "returned"
    /\ Len(flushes) = 1

\* How many leads the first query returned: the leads_found of the 50% event.
FirstCount == progress_log[2].leads_found[1]

\* The places of a second result whose lead has a key that is neither among
\* the first result's keys nor carried by an earlier lead of the second.
NovelPlaces(first, second) ==
    {i \in DOMAIN second :
        /\ KeyOf(second[i]) \notin {KeyOf(first[j]) : j \in DOMAIN first}
        /\ \A j \in 1..(i - 1) : KeyOf(second[j]) # KeyOf(second[i])}

\* The leads at those places, in the order of the second result.
NovelLeads(first, second) ==
    LET places == NovelPlaces(first, second)
        Kth(k) == CHOOSE i \in places : Cardinality({j \in places : j < i}) = k - 1
    IN  [k \in 1..Cardinality(places) |-> second[Kth(k)]]

\* C24: the broader search is issued exactly when radius expansion is enabled
\* and the first query returned fewer leads than the limit, and at most once;
\* the merged list is the first result, untouched, followed by the leads of
\* the second result whose key had not been seen, in the second result's
\* order; without the broader search the first result is left as it is.
C24_ExpansionMergesNovelLeads ==
    /\ [](/\ Cardinality({k \in DOMAIN progress_log :
                             /\ progress_log[k].stage = "scraping"
                             /\ progress_log[k].progress = 60}) <= 1
          /\ Reported("scraping", 60)
                => cfg.increase_radius /\ FirstCount < cfg.limit
          /\ pc \in {"expanded", "scraped", "sink_ready", "enriching", "done"}
                => (Reported("scraping", 60)
                       <=> cfg.increase_radius /\ FirstCount < cfg.limit)
          /\ pc = "expanded" => Reported("scraping", 90))
    /\ [][pc = "searched" /\ pc' = "expanded"
            => \E second \in SecondResults(cfg.location) :
                  raw_leads' = raw_leads \o NovelLeads(raw_leads, second)]_vars
    /\ [][pc = "searched" /\ pc' = "scraped"
            => raw_leads' = SubSeq(raw_leads, 1, Len(raw_leads'))]_vars

C24_Witness ==
    /\ pc = "expanded"
    /\ FirstCount = 3
    /\ raw_leads = <<1, 2, 4, 3, 5>>

\* The percentage C25 gives for a completion.
ClaimedPct(completed, total) ==
    IF total = 0 THEN 100 ELSE (100 * completed) \div total

\* The completions, among the first `completed` of `total`, at which C25
\* has an event reported.
ReportedCompletions(completed, total) ==
    {k \in 1..completed : k % 5 = 0 \/ k = total}

IsEnriching(event) == event.stage = "enriching"

\* C25: after the initial 0% event, the enriching events are exactly one per
\* completion whose running count is a multiple of 5 or equals the total, in
\* order, each carrying floor(100 * completed / total) (100 for a total of
\* zero).
C25_EnrichingEventsAtFifthsAndEnd ==
    pc \in {"r_loop", "r_done"} =>
       LET events == Tail(SelectSeq(progress_log, IsEnriching))
           places == ReportedCompletions(Len(enriched_leads), cfg.total_to_enrich)
           Kth(k) == CHOOSE i \in places : Cardinality({j \in places : j < i}) = k - 1
       IN  /\ Len(events) = Cardinality(places)
           /\ \A k \in DOMAIN events :
                 events[k].progress = ClaimedPct(Kth(k), cfg.total_to_enrich)

\* The leads C26 has the state filter drop.
ClaimedWrongLocation(lead, target) ==
    /\ target # None
    /\ lead.state # <<>>
    /\ lead.state # target[1]
    /\ ~Contains(Upper(lead.state), target[1])
    /\ ~Contains(Upper(lead.address), target[1])

\* C26: with a two-letter target state, a raw lead is dropped by the state
\* filter exactly when its state field is non-empty, differs from the target
\* and the target is a substring of neither its upper-cased state field nor
\* its upper-cased address; a lead with an empty state field is never
\* dropped, and no other lead is exempt.
C26_StateFilterDropsExactly ==
    pc = "enriching" /\ flushes = <<>> =>
       LET target == target_state(cfg.location)
       IN  \A i \in DOMAIN raw_leads :
              LET lead == RawLead(raw_leads[i])
                  submitted == \E f \in DOMAIN futures : futures[f].lead = raw_leads[i]
              IN  /\ ClaimedWrongLocation(lead, target) => ~submitted
                  /\ ~ClaimedWrongLocation(lead, target)
                        /\ KeyOf(raw_leads[i]) \notin existing_ids
                        => submitted
                  /\ lead.state = <<>> /\ KeyOf(raw_leads[i]) \notin existing_ids
                        => submitted

\* C27: in spreadsheet mode the known-key set only grows during a run, and a
\* key is in it only if a row with that key is in the worksheet, loaded at
\* the start or appended successfully: a failed append_rows call leaves no
\* key in the set whose row was not written.
C27_KnownKeysAreSheetRows ==
    /\ [][existing_ids \subseteq existing_ids']_vars
    /\ [](use_sheet /\ worksheet => existing_ids \subseteq SeqRange(sheet_rows))

\* C28: the webhook spawns run_pipeline only for a body in which every
\* required field is present and non-empty; an invocation makes no callback
\* POST before the pipeline has returned or raised and exactly one after;
\* the result has status "error" and an error message exactly when the
\* pipeline raised, otherwise status "success", no error and the returned
\* leads; and whatever the callback does, the invocation does not raise and
\* returns the result it posted.
C28_OneCallbackPerInvocation ==
    /\ futures # <<>>
          => /\ \A f \in required_fields : cfg.fields[f] = "value"
             /\ returned.status = "accepted"
    /\ pc \in {"w_rejected", "w_failed"} => futures = <<>> /\ returned.status = "error"
    /\ \A i \in DOMAIN futures :
          LET run == futures[i]
          IN  /\ Len(run.posts) <= 1
              /\ run.pipeline = "pending" => run.posts = <<>>
              /\ pc \in {"p_return", "p_done"} => Len(run.posts) = 1
              /\ ~run.raised
              /\ run.pipeline = "raised"
                    => /\ run.result.status = "error"
                       /\ run.result.error # None
                       /\ run.result.leads = <<>>
              /\ run.pipeline = "returned"
                    => /\ run.result.status = "success"
                       /\ run.result.error = None
                       /\ run.result.leads_count = Len(run.result.leads)
              /\ run.result.job_id = "job_id" /\ run.result.secret = "callback_secret"
              /\ pc = "p_done"
                    => /\ run.returned = Some(run.result)
                       /\ run.posts[1].body = run.result

C28_Witness ==
    /\ pc = "p_done"
    /\ futures[1].pipeline = "raised"
    /\ futures[1].posts[1].outcome = "exception"
    /\ futures[1].returned # None
    /\ futures[1].returned[1].status = "error"
    /\ futures[1].returned[1].error = Some(<<"e">>)

====
